---- MODULE Spec2Model ----
(***************************************************************************)
(* Model of pymatgen.io.babel.BabelMolAdaptor: the adaptor between         *)
(* pymatgen's Molecule and OpenBabel's OBMol.                              *)
(*                                                                         *)
(* Native molecules live in a heap (a sequence of OBMol records); a        *)
(* handle is an index into the heap, and 0 stands for "no handle" (the     *)
(* attribute _obmol was never assigned).  Coordinates are fixed-point      *)
(* numbers in units of 1/Scale, so that the centroid of up to MaxAtoms     *)
(* atoms is exact.  The OpenBabel and pybel calls the adaptor makes are    *)
(* modelled by operators named after them, by their documented contract.   *)
(***************************************************************************)
EXTENDS Integers, Sequences, FiniteSets, TLC

VARIABLES
    heap,        \* the native molecules allocated so far
    adaptor,     \* "none" | "constructed": whether a constructor has returned an instance
    self_obmol,  \* self._obmol: the handle the adaptor holds, 0 when unset
    raised,      \* the exception the last call ended in, "none" when it returned
    callerRef,   \* the handle the caller holds (its own, or got from openbabel_mol), 0 if none
    ctorArg,     \* the argument the constructor was called with
    lastOp,      \* the last call and its inputs
    lastMol,     \* the Molecule the last pymatgen_mol read returned
    calls,       \* the toolkit calls the last confm_search or localopt made, in order
    nalloc,      \* number of ob.OBMol() allocations made by the adaptor's own code
    extWrites,   \* number of writes the caller made through callerRef
    fs,          \* the file last written by write_file
    nops         \* number of calls made on the adaptor

vars == <<heap, adaptor, self_obmol, raised, callerRef, ctorArg, lastOp, lastMol,
          calls, nalloc, extWrites, fs, nops>>

----------------------------------------------------------------------------
(* Bounds *)

MaxAtoms == 2
MaxParsed == 2
MaxOps == 3
MaxHydrogens == 1
MaxConf == 2

----------------------------------------------------------------------------
(* Values *)

RECURSIVE Gcd(_, _)
Gcd(a, b) == IF b = 0 THEN a ELSE Gcd(b, a % b)

RECURSIVE LcmUpTo(_)
LcmUpTo(n) == IF n <= 1 THEN 1 ELSE LET l == LcmUpTo(n - 1) IN (l * n) \div Gcd(l, n)

\* One input length unit, in the fixed-point unit of the native coordinates.
Scale == LcmUpTo(MaxAtoms)

Elements == {"H", "C", "O"}

ZOf(el) == CASE el = "H" -> 1 [] el = "C" -> 6 [] el = "O" -> 8

ElementOfZ(z) == CHOOSE el \in Elements : ZOf(el) = z

Vectors == {<<0, 0, 0>>, <<1, 2, 0>>, <<-1, -2, 0>>}

VAdd(u, v) == <<u[1] + v[1], u[2] + v[2], u[3] + v[3]>>
VSub(u, v) == <<u[1] - v[1], u[2] - v[2], u[3] - v[3]>>
VMul(k, v) == <<k * v[1], k * v[2], k * v[3]>>
VDiv(v, k) == <<v[1] \div k, v[2] \div k, v[3] \div k>>

RECURSIVE VSum(_)
VSum(vs) == IF vs = <<>> THEN <<0, 0, 0>> ELSE VAdd(Head(vs), VSum(Tail(vs)))

\* Sequences over S of length 0..n.
SeqUpTo(S, n) == UNION {[1..k -> S] : k \in 0..n}

----------------------------------------------------------------------------
(* pymatgen's Molecule *)

\* A site holds a set of species; it is ordered when it holds exactly one.
Sites == [species : {{"H"}, {"C"}, {"H", "C"}}, coords : Vectors]

SiteIsOrdered(site) == Cardinality(site.species) = 1

\* Molecule.is_ordered
IsOrdered(mol) == \A i \in 1..Len(mol.sites) : SiteIsOrdered(mol.sites[i])

\* site.specie
Specie(site) == CHOOSE el \in site.species : TRUE

MoleculeArg(sites, charge, mult) ==
    [type |-> "Molecule", sites |-> sites, charge |-> charge, spin_multiplicity |-> mult,
     ref |-> 0]

OBMolArg(ref) ==
    [type |-> "OBMol", sites |-> <<>>, charge |-> 0, spin_multiplicity |-> 0, ref |-> ref]

\* Anything that is neither a Molecule nor an OBMol (None, a pybel Molecule, a string).
OtherArg ==
    [type |-> "other", sites |-> <<>>, charge |-> 0, spin_multiplicity |-> 0, ref |-> 0]

NoArg ==
    [type |-> "none", sites |-> <<>>, charge |-> 0, spin_multiplicity |-> 0, ref |-> 0]

\* Molecule(sp, coords): species from atomic numbers; charge and multiplicity are
\* not passed.
Molecule(sp, coords) ==
    [species |-> [i \in 1..Len(sp) |-> ElementOfZ(sp[i])], coords |-> coords]

NoMolecule == [species |-> <<>>, coords |-> <<>>]

----------------------------------------------------------------------------
(* The OpenBabel calls *)

\* ob.OBMol()
NewOBMol ==
    [atoms |-> <<>>, charge |-> 0, spin |-> 0, bonds |-> "none", nconf |-> 0,
     modifying |-> FALSE]

\* ob.OBAtom(); SetAtomicNum(atomno); SetVector(*coords)
NewOBAtom(atomno, coords) == [Z |-> atomno, pos |-> VMul(Scale, coords)]

BeginModify(m) == [m EXCEPT !.modifying = TRUE]

AddAtom(m, atom) == [m EXCEPT !.atoms = Append(@, atom)]

ConnectTheDots(m) == [m EXCEPT !.bonds = "connected"]

PerceiveBondOrders(m) == [m EXCEPT !.bonds = "ordered"]

SetTotalSpinMultiplicity(m, mult) == [m EXCEPT !.spin = mult]

SetTotalCharge(m, charge) == [m EXCEPT !.charge = charge]

Centroid(m) == VDiv(VSum([i \in 1..Len(m.atoms) |-> m.atoms[i].pos]), Len(m.atoms))

Center(m) ==
    IF m.atoms = <<>> THEN m
    ELSE [m EXCEPT !.atoms = [i \in 1..Len(m.atoms) |->
                                [m.atoms[i] EXCEPT !.pos = VSub(@, Centroid(m))]]]

Kekulize(m) == [m EXCEPT !.bonds = "kekulized"]

EndModify(m) == [m EXCEPT !.modifying = FALSE]

----------------------------------------------------------------------------
(* BabelMolAdaptor.__init__ *)

\* Mutant of AddSites: the sites are added last to first.
RECURSIVE AddSitesReversed(_, _, _)
AddSitesReversed(m, sites, i) ==
    IF i > Len(sites) THEN m
    ELSE AddSitesReversed(
             AddAtom(m, NewOBAtom(ZOf(Specie(sites[Len(sites) + 1 - i])),
                                  sites[Len(sites) + 1 - i].coords)),
             sites, i + 1)

\* for site in mol: ... obmol.AddAtom(obatom)
RECURSIVE AddSites(_, _, _)
AddSites(m, sites, i) ==
    IF i > Len(sites) THEN m
    ELSE AddSites(AddAtom(m, NewOBAtom(ZOf(Specie(sites[i])), sites[i].coords)),
                  sites, i + 1)

\* Mutant of BuildOBMol: charge and multiplicity go to the wrong setters.
BuildOBMolSwapped(mol) ==
    LET m1 == AddSites(BeginModify(NewOBMol), mol.sites, 1)
        m2 == PerceiveBondOrders(ConnectTheDots(m1))
        m3 == SetTotalCharge(SetTotalSpinMultiplicity(m2, mol.charge),
                             mol.spin_multiplicity)
    IN  EndModify(Kekulize(Center(m3)))

\* The native molecule the Molecule branch builds.
BuildOBMol(mol) ==
    LET m1 == AddSites(BeginModify(NewOBMol), mol.sites, 1)
        m2 == PerceiveBondOrders(ConnectTheDots(m1))
        m3 == SetTotalCharge(SetTotalSpinMultiplicity(m2, mol.spin_multiplicity),
                             mol.charge)
    IN  EndModify(Kekulize(Center(m3)))

\* Mutant of MoleculeBranch: the molecule is allocated before the order check.
MoleculeBranchLateCheck(h, mol) ==
    LET h1 == Append(h, NewOBMol)
    IN  IF ~IsOrdered(mol) THEN
            [heap |-> h1, obmol |-> 0, exc |-> "ValueError", allocs |-> 1]
        ELSE
            LET h2 == Append(h1, BuildOBMol(mol))
            IN  [heap |-> h2, obmol |-> Len(h2), exc |-> "none", allocs |-> 2]

\* The branch of __init__ for a pymatgen Molecule.
MoleculeBranch(h, mol) ==
    IF ~IsOrdered(mol) THEN
        [heap |-> h, obmol |-> 0, exc |-> "ValueError", allocs |-> 0]
    ELSE
        \* obmol = ob.OBMol() twice: the first one is dropped at once.
        LET h2 == Append(Append(h, NewOBMol), BuildOBMol(mol))
        IN  [heap |-> h2, obmol |-> Len(h2), exc |-> "none", allocs |-> 2]

\* The outcome of __init__(mol) on heap h: the heap, self._obmol, the exception and
\* the number of ob.OBMol() allocations made.
Ctor(h, mol) ==
    IF mol.type = "Molecule" THEN MoleculeBranch(h, mol)
    ELSE IF mol.type = "OBMol" THEN
        [heap |-> h, obmol |-> mol.ref, exc |-> "none", allocs |-> 0]
    ELSE
        \* neither branch is taken: the constructor returns and _obmol is not set
        [heap |-> h, obmol |-> 0, exc |-> "none", allocs |-> 0]

----------------------------------------------------------------------------
(* The accessors *)

\* The atoms of the handle in native order, as pymatgen_mol reads them.
ReadMol(m) ==
    Molecule([i \in 1..Len(m.atoms) |-> m.atoms[i].Z],
             [i \in 1..Len(m.atoms) |-> m.atoms[i].pos])


\* Mutant of OpenbabelMolResult: the caller gets a copy of the molecule.
OpenbabelMolCopy(h, obmol) == [heap |-> Append(h, h[obmol]), ref |-> Len(h) + 1]

\* openbabel_mol: the heap and the handle returned to the caller.
OpenbabelMolResult(h, obmol) == [heap |-> h, ref |-> obmol]

----------------------------------------------------------------------------
(* Reading files and strings with pybel *)

\* What the toolkit finds in a file or a string: unreadable, or a (possibly empty)
\* sequence of molecules.
ParsedMols ==
    {AddAtom(NewOBMol, [Z |-> 1, pos |-> <<0, 0, 0>>]),
     AddAtom(AddAtom(NewOBMol, [Z |-> 6, pos |-> <<0, 0, 0>>]),
             [Z |-> 8, pos |-> <<Scale, 0, 0>>])}

ParseOutcomes ==
    {[ok |-> FALSE, mols |-> <<>>]} \cup
    {[ok |-> TRUE, mols |-> ms] : ms \in SeqUpTo(ParsedMols, MaxParsed)}

\* Mutant of FromFileResult: the first element is taken without a bounds check.
FromFileUnchecked(h, parsed) ==
    IF ~parsed.ok THEN
        [heap |-> h, obmol |-> 0, exc |-> "IOError", allocs |-> 0]
    ELSE Ctor(h \o parsed.mols, OBMolArg(Len(h) + 1))

\* mols = list(pb.readfile(format, filename)); BabelMolAdaptor(mols[0].OBMol)
FromFileResult(h, parsed) ==
    IF ~parsed.ok THEN
        [heap |-> h, obmol |-> 0, exc |-> "IOError", allocs |-> 0]
    ELSE
        LET h2 == h \o parsed.mols
        IN  IF Len(parsed.mols) = 0 THEN
                [heap |-> h2, obmol |-> 0, exc |-> "IndexError", allocs |-> 0]
            ELSE Ctor(h2, OBMolArg(Len(h) + 1))

\* pb.readstring(format, string): the first molecule of the string, or IOError when
\* the string cannot be read as a molecule.
ReadString(h, parsed) ==
    IF ~parsed.ok \/ Len(parsed.mols) = 0 THEN
        [heap |-> h, OBMol |-> 0, exc |-> "IOError"]
    ELSE
        [heap |-> Append(h, parsed.mols[1]), OBMol |-> Len(h) + 1, exc |-> "none"]

\* mols = pb.readstring(format, string_data); BabelMolAdaptor(mols.OBMol)
FromStringResult(h, parsed) ==
    LET mols == ReadString(h, parsed)
    IN  IF mols.exc # "none" THEN
            [heap |-> mols.heap, obmol |-> 0, exc |-> mols.exc, allocs |-> 0]
        ELSE Ctor(mols.heap, OBMolArg(mols.OBMol))

----------------------------------------------------------------------------
(* Force fields *)

FFRegistry == <<"gaff", "ghemical", "mmff94", "mmff94s", "uff">>

\* ob.OBForceField_FindType(name): the force field's registry entry, 0 if not found.
OBForceField_FindType(name) ==
    IF \E i \in 1..Len(FFRegistry) : FFRegistry[i] = name
    THEN CHOOSE i \in 1..Len(FFRegistry) : FFRegistry[i] = name
    ELSE 0

\* The toolkit moves atoms: the last atom is displaced by d.
Displacements == {<<0, 0, 0>>, <<Scale, 0, 0>>}

Relax(m, d) ==
    IF m.atoms = <<>> THEN m
    ELSE [m EXCEPT !.atoms[Len(m.atoms)].pos = VAdd(@, d)]

\* pb.Molecule(obmol): the wrapper keeps the OBMol it is given.
PybelMolecule(obmol) == [OBMol |-> obmol]

\* Mutant of LocalOptResult: the optimised molecule is a new object.
LocalOptCopy(h, obmol, forcefield, steps, d) ==
    IF OBForceField_FindType(forcefield) = 0 THEN
        [heap |-> h, obmol |-> obmol, exc |-> "ToolkitError",
         calls |-> <<<<"localopt", forcefield, steps>>>>]
    ELSE
        [heap |-> Append(h, Relax(h[obmol], d)), obmol |-> Len(h) + 1, exc |-> "none",
         calls |-> <<<<"localopt", forcefield, steps>>>>]

\* localopt: outcome on heap h for the adaptor holding obmol; d is the toolkit's
\* displacement.
LocalOptResult(h, obmol, forcefield, steps, d) ==
    LET pbmol == PybelMolecule(obmol)
    IN  IF OBForceField_FindType(forcefield) = 0 THEN
            \* pbmol.localopt raises; the assignment is not reached
            [heap |-> h, obmol |-> obmol, exc |-> "ToolkitError",
             calls |-> <<<<"localopt", forcefield, steps>>>>]
        ELSE
            [heap |-> [h EXCEPT ![pbmol.OBMol] = Relax(@, d)],
             obmol |-> pbmol.OBMol, exc |-> "none",
             calls |-> <<<<"localopt", forcefield, steps>>>>]


----------------------------------------------------------------------------
(* BabelMolAdaptor.confm_search *)

RotorTrials == 500
RotorSteps == 25

\* Python values, to compare values of different types as Python's == does.
PyInt(n) == [type |-> "int", val |-> n]

\* The builtin function id, which the name id denotes inside confm_search.
BuiltinId == [type |-> "builtin_function_or_method", val |-> 0]

PyEq(a, b) == a.type = b.type /\ a.val = b.val

\* x in lst, for a list of integers
PyIn(x, lst) == \E j \in 1..Len(lst) : PyEq(x, PyInt(lst[j]))

\* if freeze_atoms: None and the empty list are false
Truthy(freeze_atoms) == ~freeze_atoms.isNone /\ Len(freeze_atoms.items) > 0

\* atom.GetIndex() of the i-th atom in iteration order
GetIndex(i) == i - 1

\* The atom ids the loop adds to the constraints.
FreezeConstraints(m, freeze_atoms) ==
    {GetIndex(i) + 1 : i \in {j \in 1..Len(m.atoms) : PyIn(BuiltinId, freeze_atoms.items)}}

\* builder.Build(obmol): the toolkit rebuilds the geometry.
Build(m, d) == Relax(m, d)

\* obmol.AddHydrogens(): the toolkit appends k hydrogen atoms.
AddHydrogens(m, k) ==
    [m EXCEPT !.atoms = @ \o [i \in 1..k |-> [Z |-> 1, pos |-> <<0, 0, 0>>]]]

\* ff.GetConformers(obmol): the n conformers generated are stored in the molecule.
GetConformers(m, n) == [m EXCEPT !.nconf = n]

\* Lines 137-142: the optional 3D build and hydrogen addition.
Prepare(m, obmol, a, tk) ==
    LET m1 == IF a.make_3d THEN Build(m, tk.d) ELSE m
        m2 == IF a.add_hydrogens THEN AddHydrogens(m1, tk.k) ELSE m1
    IN  [mol |-> m2,
         calls |-> (IF a.make_3d THEN <<<<"Build", obmol>>>> ELSE <<>>) \o
                   (IF a.add_hydrogens THEN <<<<"AddHydrogens", obmol>>>> ELSE <<>>)]

\* Mutant of ResolveForcefield: no fallback when the name is not found.
ResolveNoFallback(forcefield) ==
    [ff |-> OBForceField_FindType(forcefield), calls |-> <<<<"FindType", forcefield>>>>]

\* Lines 144-148: the force field by name, mmff94 when the name is not found.
ResolveForcefield(forcefield) ==
    LET ff == OBForceField_FindType(forcefield)
    IN  IF ff = 0 THEN
            [ff |-> OBForceField_FindType("mmff94"),
             calls |-> <<<<"FindType", forcefield>>, <<"print", "forcefield", forcefield>>,
                         <<"FindType", "mmff94">>>>]
        ELSE [ff |-> ff, calls |-> <<<<"FindType", forcefield>>>>]

\* Lines 150-157: the constraints attached when freeze_atoms is true.
Constrain(m, ff, freeze_atoms) ==
    IF Truthy(freeze_atoms) THEN
        <<<<"print", "freeze", Len(freeze_atoms.items)>>,
          <<"SetConstraints", ff, FreezeConstraints(m, freeze_atoms)>>>>
    ELSE <<>>

\* Mutant of Search: the conformers are collected before they are generated.
SearchCollectFirst(ff, obmol, a) ==
    <<<<"WeightedRotorSearch", ff, RotorTrials, RotorSteps>>,
      <<"GetConformers", ff, obmol>>,
      <<"DiverseConfGen", ff, a.rmsd_cutoff, a.conf_cutoff, a.energy_cutoff, a.verbose>>>>

\* Lines 159-166: rotor search, conformer generation, collection.
Search(ff, obmol, a) ==
    <<<<"WeightedRotorSearch", ff, RotorTrials, RotorSteps>>,
      <<"DiverseConfGen", ff, a.rmsd_cutoff, a.conf_cutoff, a.energy_cutoff, a.verbose>>,
      <<"GetConformers", ff, obmol>>>>

\* confm_search with arguments a on heap h, for the adaptor whose handle is obmol;
\* tk holds the toolkit's choices (displacement d, hydrogens k, conformers n).
ConfmSearchResult(h, obmol, a, tk) ==
    LET p == Prepare(h[obmol], obmol, a, tk)
        r == ResolveForcefield(a.forcefield)
    IN  IF r.ff = 0 THEN
            \* no method can be called on 0
            [heap |-> [h EXCEPT ![obmol] = p.mol], obmol |-> obmol,
             exc |-> "AttributeError", calls |-> p.calls \o r.calls]
        ELSE
            [heap |-> [h EXCEPT ![obmol] = GetConformers(p.mol, tk.n)],
             obmol |-> obmol, exc |-> "none",
             calls |-> p.calls \o r.calls \o Constrain(p.mol, r.ff, a.freeze_atoms) \o
                       Search(r.ff, obmol, a) \o
                       (IF a.verbose THEN <<<<"print", "conformers", tk.n>>>> ELSE <<>>)]


----------------------------------------------------------------------------
(* Inputs *)

Charges == {0, 1}
Multiplicities == {1, 2}

\* Every Molecule of up to MaxAtoms sites.
CtorArgs ==
    {MoleculeArg(ss, c, m) : ss \in SeqUpTo(Sites, MaxAtoms), c \in Charges,
                             m \in Multiplicities}

Site(el, v) == [species |-> {el}, coords |-> v]

\* The arguments of the life-cycle runs: an ordered Molecule, a disordered one, and
\* an object of another type.
LifecycleArgs ==
    {MoleculeArg(<<Site("C", <<0, 0, 0>>), Site("H", <<1, 2, 0>>)>>, 1, 2),
     MoleculeArg(<<[species |-> {"H", "C"}, coords |-> <<0, 0, 0>>]>>, 0, 1),
     OtherArg}

\* The native molecules a caller builds itself.
CallerMols == ParsedMols \cup {NewOBMol}

ConfmArgs(ff, fr, rmsd, energy, conf, verbose, make_3d, add_hydrogens) ==
    [forcefield |-> ff, freeze_atoms |-> fr, rmsd_cutoff |-> rmsd,
     energy_cutoff |-> energy, conf_cutoff |-> conf, verbose |-> verbose,
     make_3d |-> make_3d, add_hydrogens |-> add_hydrogens]

NoFreeze == [isNone |-> TRUE, items |-> <<>>]

\* The defaults of confm_search; rmsd_cutoff 0.5 is 5 tenths.
DefaultArgs == ConfmArgs("mmff94", NoFreeze, 5, 50, 100000, FALSE, FALSE, FALSE)

ForcefieldInputs == {"mmff94", "uff", "bogus"}

FreezeInputs ==
    {NoFreeze} \cup {[isNone |-> FALSE, items |-> l] : l \in SeqUpTo(1..MaxAtoms, 2)}

\* <<rmsd_cutoff, energy_cutoff, conf_cutoff>>
CutoffInputs == {<<5, 50, 100000>>, <<10, 20, 1>>}

AllConfmInputs ==
    {ConfmArgs(ff, fr, c[1], c[2], c[3], v, m3, ah) :
        ff \in ForcefieldInputs, fr \in FreezeInputs, c \in CutoffInputs,
        v \in BOOLEAN, m3 \in BOOLEAN, ah \in BOOLEAN}

LifecycleConfmInputs ==
    {DefaultArgs,
     ConfmArgs("bogus", [isNone |-> FALSE, items |-> <<1>>], 5, 50, 100000,
               TRUE, TRUE, TRUE)}

StepsInputs == {1, 500}

FormatInputs == {"xyz", "pdb"}

\* What the toolkit may do in one confm_search on molecule m.
ToolkitChoices(m, a) ==
    [d : IF a.make_3d THEN Displacements ELSE {<<0, 0, 0>>},
     k : IF a.add_hydrogens
         THEN 0..(IF Len(m.atoms) >= MaxAtoms + MaxHydrogens THEN 0 ELSE MaxHydrogens)
         ELSE {0},
     n : 1..(IF a.conf_cutoff < MaxConf THEN a.conf_cutoff ELSE MaxConf)]

----------------------------------------------------------------------------
(* State machine *)

Op(name, a, nparsed) == [name |-> name, a |-> a, nparsed |-> nparsed]

NoFile == [format |-> "", atoms |-> <<>>]

Init ==
    /\ heap = <<>>
    /\ adaptor = "none"
    /\ self_obmol = 0
    /\ raised = "none"
    /\ callerRef = 0
    /\ ctorArg = NoArg
    /\ lastOp = Op("none", DefaultArgs, -1)
    /\ lastMol = NoMolecule
    /\ calls = <<>>
    /\ nalloc = 0
    /\ extWrites = 0
    /\ fs = NoFile
    /\ nops = 0

NotStarted == adaptor = "none" /\ lastOp.name = "none"

\* A constructor call ended with outcome r.
Constructed(r, name, arg, nparsed, ref) ==
    /\ heap' = r.heap
    /\ self_obmol' = r.obmol
    /\ raised' = r.exc
    /\ adaptor' = IF r.exc = "none" THEN "constructed" ELSE "none"
    /\ nalloc' = nalloc + r.allocs
    /\ callerRef' = ref
    /\ ctorArg' = arg
    /\ lastOp' = Op(name, DefaultArgs, nparsed)
    /\ lastMol' = NoMolecule
    /\ calls' = <<>>
    /\ UNCHANGED <<extWrites, fs, nops>>

\* BabelMolAdaptor(mol) for a Molecule or an object of another type
Construct(args) ==
    \E arg \in args :
        /\ NotStarted
        /\ Constructed(Ctor(heap, arg), "__init__", arg, -1, 0)

\* BabelMolAdaptor(obmol) for a native molecule the caller built and keeps
ConstructFromHandle ==
    \E m \in CallerMols :
        /\ NotStarted
        /\ LET h1 == Append(heap, m)
           IN  Constructed(Ctor(h1, OBMolArg(Len(h1))), "__init__", OBMolArg(Len(h1)),
                           -1, Len(h1))

FromFile ==
    \E parsed \in ParseOutcomes :
        /\ NotStarted
        /\ LET r == FromFileResult(heap, parsed)
           IN  Constructed(r, "from_file",
                           IF r.obmol = 0 THEN NoArg ELSE OBMolArg(r.obmol),
                           IF parsed.ok THEN Len(parsed.mols) ELSE -1, 0)

FromString ==
    \E parsed \in ParseOutcomes :
        /\ NotStarted
        /\ LET r == FromStringResult(heap, parsed)
           IN  Constructed(r, "from_string",
                           IF r.obmol = 0 THEN NoArg ELSE OBMolArg(r.obmol),
                           IF parsed.ok THEN Len(parsed.mols) ELSE -1, 0)

CanCall == adaptor = "constructed" /\ nops < MaxOps

\* A call on an adaptor whose _obmol was never set
NoHandle(name, a) ==
    /\ raised' = "AttributeError"
    /\ lastOp' = Op(name, a, -1)
    /\ lastMol' = NoMolecule
    /\ calls' = <<>>
    /\ nops' = nops + 1
    /\ UNCHANGED <<heap, adaptor, self_obmol, callerRef, ctorArg, nalloc, extWrites, fs>>

OpenbabelMol ==
    /\ CanCall
    /\ IF self_obmol = 0 THEN NoHandle("openbabel_mol", DefaultArgs)
       ELSE LET r == OpenbabelMolResult(heap, self_obmol)
            IN  /\ heap' = r.heap
                /\ callerRef' = r.ref
                /\ raised' = "none"
                /\ lastOp' = Op("openbabel_mol", DefaultArgs, -1)
                /\ lastMol' = NoMolecule
                /\ calls' = <<>>
                /\ nops' = nops + 1
                /\ UNCHANGED <<adaptor, self_obmol, ctorArg, nalloc, extWrites, fs>>

PymatgenMol ==
    /\ CanCall
    /\ IF self_obmol = 0 THEN NoHandle("pymatgen_mol", DefaultArgs)
       ELSE /\ lastMol' = ReadMol(heap[self_obmol])
            /\ raised' = "none"
            /\ lastOp' = Op("pymatgen_mol", DefaultArgs, -1)
            /\ calls' = <<>>
            /\ nops' = nops + 1
            /\ UNCHANGED <<heap, adaptor, self_obmol, callerRef, ctorArg, nalloc,
                           extWrites, fs>>

\* The caller changes the first atom of the molecule it holds a reference to.
CallerWrite ==
    /\ CanCall
    /\ callerRef # 0
    /\ Len(heap[callerRef].atoms) > 0
    /\ \E el \in {"O"}, v \in {<<1, 2, 0>>} :
        \E atom \in {[heap[callerRef].atoms[1] EXCEPT !.Z = ZOf(el)],
                     [heap[callerRef].atoms[1] EXCEPT !.pos = VAdd(@, VMul(Scale, v))]} :
            heap' = [heap EXCEPT ![callerRef].atoms[1] = atom]
    /\ extWrites' = extWrites + 1
    /\ raised' = "none"
    /\ lastOp' = Op("caller_write", DefaultArgs, -1)
    /\ lastMol' = NoMolecule
    /\ calls' = <<>>
    /\ nops' = nops + 1
    /\ UNCHANGED <<adaptor, self_obmol, callerRef, ctorArg, nalloc, fs>>

LocalOpt ==
    \E ff \in ForcefieldInputs, steps \in StepsInputs, d \in Displacements :
        /\ CanCall
        /\ LET a == [DefaultArgs EXCEPT !.forcefield = ff]
           IN  IF self_obmol = 0 THEN NoHandle("localopt", a)
               ELSE LET r == LocalOptResult(heap, self_obmol, ff, steps, d)
                    IN  /\ heap' = r.heap
                        /\ self_obmol' = r.obmol
                        /\ raised' = r.exc
                        /\ calls' = r.calls
                        /\ lastOp' = Op("localopt", a, -1)
                        /\ lastMol' = NoMolecule
                        /\ nops' = nops + 1
                        /\ UNCHANGED <<adaptor, callerRef, ctorArg, nalloc, extWrites, fs>>

ConfmSearch(inputs, limit) ==
    \E a \in inputs :
        /\ CanCall
        /\ nops < limit
        /\ IF self_obmol = 0 THEN NoHandle("confm_search", a)
           ELSE \E tk \in ToolkitChoices(heap[self_obmol], a) :
                    LET r == ConfmSearchResult(heap, self_obmol, a, tk)
                    IN  /\ heap' = r.heap
                        /\ self_obmol' = r.obmol
                        /\ raised' = r.exc
                        /\ calls' = r.calls
                        /\ lastOp' = Op("confm_search", a, -1)
                        /\ lastMol' = NoMolecule
                        /\ nops' = nops + 1
                        /\ UNCHANGED <<adaptor, callerRef, ctorArg, nalloc, extWrites, fs>>

\* mol = pb.Molecule(self._obmol); mol.write(file_format, filename, overwrite=True)
WriteFile ==
    \E fmt \in FormatInputs :
        /\ CanCall
        /\ IF self_obmol = 0 THEN NoHandle("write_file", DefaultArgs)
           ELSE /\ fs' = [format |-> fmt,
                          atoms |-> heap[PybelMolecule(self_obmol).OBMol].atoms]
                /\ raised' = "none"
                /\ lastOp' = Op("write_file", DefaultArgs, -1)
                /\ lastMol' = NoMolecule
                /\ calls' = <<>>
                /\ nops' = nops + 1
                /\ UNCHANGED <<heap, adaptor, self_obmol, callerRef, ctorArg, nalloc,
                               extWrites>>

\* The life cycle of an adaptor: one constructor, then calls on the instance.
Next ==
    \/ Construct(LifecycleArgs)
    \/ ConstructFromHandle
    \/ FromFile
    \/ FromString
    \/ OpenbabelMol
    \/ PymatgenMol
    \/ CallerWrite
    \/ LocalOpt
    \/ ConfmSearch(LifecycleConfmInputs, MaxOps)
    \/ WriteFile

Spec == Init /\ [][Next]_vars

\* Construction from every small Molecule, and the accessors.
CtorNext ==
    \/ Construct(CtorArgs)
    \/ OpenbabelMol
    \/ PymatgenMol

CtorSpec == Init /\ [][CtorNext]_vars

\* Conformer search: the first call on a new adaptor takes every combination of the
\* arguments, later calls the life-cycle ones.
ConfmNext ==
    \/ Construct(LifecycleArgs)
    \/ ConstructFromHandle
    \/ ConfmSearch(AllConfmInputs, 1)
    \/ ConfmSearch(LifecycleConfmInputs, MaxOps)

ConfmSpec == Init /\ [][ConfmNext]_vars


----------------------------------------------------------------------------
(* Properties *)

InputCoords == [i \in 1..Len(ctorArg.sites) |-> ctorArg.sites[i].coords]

\* C1: constructing from a Molecule with a site that has no single definite species
\* raises ValueError; no adaptor results, no handle is held, and no native molecule
\* was allocated or changed.
C1_DisorderedRejected ==
    (lastOp.name = "__init__" /\ ctorArg.type = "Molecule"
        /\ \E i \in 1..Len(ctorArg.sites) : Cardinality(ctorArg.sites[i].species) # 1)
    => /\ raised = "ValueError"
       /\ adaptor = "none"
       /\ self_obmol = 0
       /\ nalloc = 0
       /\ heap = <<>>

C1_Witness ==
    /\ lastOp.name = "__init__"
    /\ ctorArg.type = "Molecule"
    /\ Len(ctorArg.sites) = 2
    /\ Cardinality(ctorArg.sites[1].species) = 1
    /\ Cardinality(ctorArg.sites[2].species) = 2
    /\ raised = "ValueError"
    /\ heap = <<>>

Searched == lastOp.name = "confm_search" /\ self_obmol # 0

\* The positions in calls of the toolkit call named op.
CallsOf(op) == {i \in 1..Len(calls) : calls[i][1] = op}

C5_EmptyParseRejected ==
    /\ (lastOp.name \in {"from_file", "from_string"} /\ lastOp.nparsed = 0)
        => (raised # "none" /\ adaptor = "none" /\ self_obmol = 0)
    /\ (lastOp.name \in {"from_file", "from_string"} /\ adaptor = "constructed")
        => (lastOp.nparsed >= 1 /\ self_obmol \in 1..Len(heap))

C5_Witness ==
    /\ lastOp.name = "from_file"
    /\ lastOp.nparsed = 0
    /\ raised = "IndexError"
    /\ adaptor = "none"

\* C6: openbabel_mol returns the handle the adaptor holds, so what the caller writes
\* through it is what the next pymatgen_mol reads; an adaptor built from a native
\* molecule holds the caller's molecule itself, unchanged.
C6_SharedHandle ==
    /\ (lastOp.name = "openbabel_mol" /\ raised = "none") => callerRef = self_obmol
    /\ (lastOp.name = "pymatgen_mol" /\ raised = "none" /\ callerRef # 0)
        => (\A i \in 1..Len(heap[callerRef].atoms) :
                /\ ZOf(lastMol.species[i]) = heap[callerRef].atoms[i].Z
                /\ lastMol.coords[i] = heap[callerRef].atoms[i].pos)
           /\ Len(lastMol.species) = Len(heap[callerRef].atoms)
    /\ (lastOp.name = "__init__" /\ ctorArg.type = "OBMol")
        => (self_obmol = callerRef /\ Len(heap) = 1 /\ heap[callerRef] \in CallerMols)

C6_Witness ==
    /\ lastOp.name = "pymatgen_mol"
    /\ raised = "none"
    /\ ctorArg.type = "Molecule"
    /\ callerRef = self_obmol
    /\ extWrites > 0
    /\ lastMol.species = <<"O", "H">>

\* C7: whenever a constructor has returned an instance, the adaptor holds a handle
\* of an allocated molecule, and no call finds the handle missing.
C7_AlwaysHoldsHandle ==
    adaptor = "constructed" => (self_obmol \in 1..Len(heap) /\ raised # "AttributeError")

\* C8: when freeze_atoms is a non-empty list, the constraints attached to the force
\* field are exactly the atoms whose index is in freeze_atoms; when it is None or
\* empty no constraints are attached.
C8_FreezeConstraints ==
    (Searched /\ raised = "none")
    => LET fr == lastOp.a.freeze_atoms
           n == Len(heap[self_obmol].atoms)
           frozen == {id \in 1..n : \E j \in 1..Len(fr.items) : fr.items[j] = id}
       IN  IF ~fr.isNone /\ fr.items # <<>>
           THEN /\ Cardinality(CallsOf("SetConstraints")) = 1
                /\ \A i \in CallsOf("SetConstraints") : calls[i][3] = frozen
           ELSE CallsOf("SetConstraints") = {}

Rank(op) ==
    CASE op = "Build" -> 1
      [] op = "AddHydrogens" -> 2
      [] op = "FindType" -> 3
      [] op = "SetConstraints" -> 4
      [] op = "WeightedRotorSearch" -> 5
      [] op = "DiverseConfGen" -> 6
      [] op = "GetConformers" -> 7
      [] OTHER -> 0

\* C9: in a confm_search that returns, the toolkit calls are made in the order 3D
\* build, hydrogen addition, force field lookup, constraint attachment, rotor search
\* (500, 25), conformer generation (rmsd, count and energy cutoffs), conformer
\* collection; the build and the hydrogen addition happen exactly when their flag is
\* set, constraints are attached only when freeze_atoms is given, and collection
\* comes last, after generation.
C9_StepOrder ==
    (Searched /\ raised = "none")
    => LET tc == {i \in 1..Len(calls) : calls[i][1] # "print"}
           a == lastOp.a
       IN  /\ \A i, j \in tc :
                i < j => \/ Rank(calls[i][1]) < Rank(calls[j][1])
                         \/ (calls[i][1] = "FindType" /\ calls[j][1] = "FindType")
           /\ \A i \in tc : Rank(calls[i][1]) > 0
           /\ (CallsOf("Build") # {}) <=> a.make_3d
           /\ (CallsOf("AddHydrogens") # {}) <=> a.add_hydrogens
           /\ CallsOf("FindType") # {}
           /\ (CallsOf("SetConstraints") # {}) => ~a.freeze_atoms.isNone
           /\ Cardinality(CallsOf("WeightedRotorSearch")) = 1
           /\ \A i \in CallsOf("WeightedRotorSearch") :
                calls[i][3] = 500 /\ calls[i][4] = 25
           /\ Cardinality(CallsOf("DiverseConfGen")) = 1
           /\ \A i \in CallsOf("DiverseConfGen") :
                /\ calls[i][3] = a.rmsd_cutoff
                /\ calls[i][4] = a.conf_cutoff
                /\ calls[i][5] = a.energy_cutoff
           /\ Cardinality(CallsOf("GetConformers")) = 1
           /\ \A i \in CallsOf("GetConformers") : \A j \in tc : j <= i

C9_Witness ==
    /\ Searched
    /\ raised = "none"
    /\ lastOp.a.make_3d
    /\ lastOp.a.add_hydrogens
    /\ lastOp.a.freeze_atoms.items = <<2, 1>>
    /\ lastOp.a.forcefield = "bogus"
    /\ lastOp.a.conf_cutoff = 1
    /\ Len(calls) = 10

\* C10: a localopt or confm_search call leaves the adaptor holding the same handle
\* as before and allocates no molecule, so a reference the caller got earlier still
\* names the adaptor's molecule.
C10_SameHandle ==
    [][(adaptor = "constructed" /\ lastOp'.name \in {"localopt", "confm_search"})
        => /\ self_obmol' = self_obmol
           /\ Len(heap') = Len(heap)
           /\ callerRef' = callerRef]_vars

C10_Witness ==
    /\ lastOp.name = "localopt"
    /\ raised = "none"
    /\ ctorArg.type = "Molecule"
    /\ callerRef # 0
    /\ callerRef = self_obmol
    /\ nops >= 2

====
